---- MODULE Spec2Model ----
(***************************************************************************)
(* One run of the Gmail metadata exporter (src/main.py): main() builds a   *)
(* GmailService (whose constructor authenticates), authenticates again,    *)
(* lists the messages matching the query, and process_and_save writes one  *)
(* CSV row per message whose metadata could be fetched.                    *)
(*                                                                         *)
(* The environment (token file, client-secret file, previous output file,  *)
(* clock, and the outcome of every remote call and file write) is chosen   *)
(* nondeterministically.  Optional values (Python None / a file that does  *)
(* not exist) are sequences of length 0 or 1.                              *)
(***************************************************************************)
EXTENDS Integers, Sequences, FiniteSets, TLC

\* ---- bounds of the model ------------------------------------------------
MaxMsgs == 2            \* longest list result
MaxTime == 2            \* clock values and stored expiries range over 1..MaxTime
TokenLifetime == 1      \* lifetime of a refreshed or newly issued access token
MaxHdrs == 2            \* longest header list of SpecExport
MaxLabels == 2          \* longest label list of SpecExport

VARIABLES
  pc,          \* position of main(): see Positions
  uncaught,    \* TRUE when an exception left main() (raised outside its try)
  now,         \* the clock (constant during the run)
  tokenFile,   \* TOKEN_FILE: None (absent) or Some(json)
  credsFile,   \* CREDENTIALS_FILE exists
  outFile,     \* OUTPUT_FILE: None (absent) or Some(sequence of rows)
  prevOut,     \* OUTPUT_FILE as it was before the run (history)
  prevToken,   \* TOKEN_FILE as it was before the run (history)
  creds,       \* self.creds: None or Some(credential)
  loadedCreds, \* the credential self.creds held after line 36 of the latest authenticate (history)
  service,     \* self.service is set
  messages,    \* the list handed to process_and_save
  idx,         \* position of the for loop of process_and_save
  details,     \* per processed message: None (fetch failed) or Some(detail) (history)
  writeFailed, \* a write to OUTPUT_FILE raised IOError (history)
  calls,       \* every remote call and file access so far, in order (history)
  lastError,   \* the exception the run logged last, "" when none
  listOutcome, \* how the list request ended, "" before it (history)
  mainSaw      \* the exception that reached main's except (line 160), "" when none

vars == <<pc, uncaught, now, tokenFile, credsFile, outFile, prevOut, prevToken, creds,
          loadedCreds, service, messages, idx, details, writeFailed, calls, lastError,
          listOutcome, mainSaw>>

None == <<>>
Some(v) == <<v>>

Ev(op, id) == [op |-> op, id |-> id]

Terminal == {"AUTH_FAILED", "LIST_EMPTY", "EXPORT_FAILED", "APP_FAILED", "DONE"}
Positions == {"START", "CONSTRUCTED", "AUTHENTICATED", "LISTED", "EXPORTING"} \cup Terminal

\* ---- credentials (google.oauth2.credentials.Credentials as main.py uses it)
Tokens == {"none", "stored"}
StoredCreds == [token : Tokens, refresh_token : BOOLEAN, expiry : 1..MaxTime]

expired(c, t) == c.expiry <= t
valid(c, t) == c.token # "none" /\ ~expired(c, t)
refresh(c, t) == [c EXCEPT !.token = "refreshed", !.expiry = t + TokenLifetime]
run_local_server(t) == [token |-> "issued", refresh_token |-> TRUE, expiry |-> t + TokenLifetime]
to_json(c) == <<c.token, c.refresh_token, c.expiry>>
from_authorized_user_file(j) == [token |-> j[1], refresh_token |-> j[2], expiry |-> j[3]]

AuthEnv == [refresh : BOOLEAN, flow : BOOLEAN, write : BOOLEAN, build : BOOLEAN]

AuthResult(c, loaded, f, svc, evs, err) ==
  [creds |-> c, loaded |-> loaded, tokenFile |-> f, service |-> svc, events |-> evs,
   error |-> err]

\* mutant: every loaded credential is treated as unusable
needs_login_always(loaded, t) == TRUE

\* line 39: the loaded credential cannot be used as it is
needs_login(loaded, t) == loaded = None \/ ~valid(loaded[1], t)

\* line 55-56: build the API service with credential c
build_service(self, c, loaded, f, evs, env) ==
  IF env.build
  THEN AuthResult(c, loaded, f, TRUE, Append(evs, Ev("build", "")), "ok")
  ELSE AuthResult(c, loaded, f, self.service, Append(evs, Ev("build", "")), "BuildError")

\* mutant: the credential is not written before the service is built
save_token_skipped(self, c, loaded, tf, evs, env) ==
  build_service(self, c, loaded, tf, evs, env)

\* lines 51-55: write credential c to TOKEN_FILE, then build the service
save_token(self, c, loaded, tf, evs, env) ==
  IF env.write
  THEN build_service(self, c, loaded, Some(to_json(c[1])),
                     Append(evs, Ev("write_token", "")), env)
  ELSE AuthResult(c, loaded, tf, self.service, Append(evs, Ev("write_token", "")), "IOError")

\* mutant: the consent flow starts without looking for CREDENTIALS_FILE
refresh_or_login_unchecked(self, loaded, tf, cf, t, evs, env) ==
  IF loaded # None /\ expired(loaded[1], t) /\ loaded[1].refresh_token
  THEN IF env.refresh
       THEN save_token(self, Some(refresh(loaded[1], t)), loaded, tf,
                       Append(evs, Ev("refresh", "")), env)
       ELSE AuthResult(loaded, loaded, tf, self.service, Append(evs, Ev("refresh", "")),
                       "RefreshError")
  ELSE IF env.flow /\ cf
       THEN save_token(self, Some(run_local_server(t)), loaded, tf,
                       Append(evs, Ev("consent_flow", "")), env)
       ELSE AuthResult(loaded, loaded, tf, self.service,
                       Append(evs, Ev("consent_flow", "")), "FileNotFoundError")

\* lines 40-53: refresh the loaded credential or run the consent flow
refresh_or_login(self, loaded, tf, cf, t, evs, env) ==
  IF loaded # None /\ expired(loaded[1], t) /\ loaded[1].refresh_token
  THEN IF env.refresh
       THEN save_token(self, Some(refresh(loaded[1], t)), loaded, tf,
                       Append(evs, Ev("refresh", "")), env)
       ELSE AuthResult(loaded, loaded, tf, self.service, Append(evs, Ev("refresh", "")),
                       "RefreshError")
  ELSE IF ~cf
       THEN AuthResult(loaded, loaded, tf, self.service,
                       Append(evs, Ev("exists_credentials", "")), "FileNotFoundError")
       ELSE IF env.flow
            THEN save_token(self, Some(run_local_server(t)), loaded, tf,
                            evs \o <<Ev("exists_credentials", ""), Ev("consent_flow", "")>>, env)
            ELSE AuthResult(loaded, loaded, tf, self.service,
                            evs \o <<Ev("exists_credentials", ""), Ev("consent_flow", "")>>,
                            "FlowError")

\* GmailService.authenticate: the result of one call on the object `self`
\* (creds, service) with token file tf, client-secret file present cf, clock t
\* and the outcomes env of the calls it may make.  error is "ok" or the
\* exception lines 58-60 log and re-raise.
authenticate(self, tf, cf, t, env) ==
  LET loaded == IF tf # None THEN Some(from_authorized_user_file(tf[1])) ELSE self.creds
      ev0 == <<Ev("exists_token", "")>>
             \o (IF tf # None THEN <<Ev("load_token", "")>> ELSE <<>>)
  IN  IF needs_login(loaded, t)
      THEN refresh_or_login(self, loaded, tf, cf, t, ev0, env)
      ELSE build_service(self, loaded, loaded, tf, ev0, env)

\* ---- Mail query (get_emails, get_message_details) -------------------------
Summaries == {[id |-> "1", threadId |-> "t1"], [id |-> "2", threadId |-> "t2"]}
ListResults == UNION {[1..n -> Summaries] : n \in 0..MaxMsgs}

H(n, v) == [name |-> n, value |-> v]
\* responses of messages.get(format='metadata'): labelIds and payload.headers
Details ==
  { [labelIds |-> <<"INBOX">>,
     payload |-> Some(<<H("Subject", "Hi"), H("From", "a@x.com"), H("To", "b@x.com"),
                        H("Date", "Mon, 1 Jan")>>)],
    [labelIds |-> <<"INBOX", "UNREAD">>,
     payload |-> Some(<<H("subject", "lower"), H("Subject", "A"), H("Subject", "B"),
                        H("To", "c@x.com")>>)],
    [labelIds |-> <<>>, payload |-> None] }

\* outcomes of request.execute(): a response, googleapiclient's HttpError, an
\* OSError raised by the transport (ConnectionError, TimeoutError, socket
\* errors; IOError is OSError), or another exception (httplib2 errors)
Outcomes == {"ok", "HttpError", "OSError", "TransportError"}

\* GmailService.get_emails: error is "ok" when the call returns
get_emails(svc, outcome, res) ==
  IF ~svc
  THEN [error |-> "NotInitialized", value |-> <<>>, logged |-> "", events |-> <<>>]
  ELSE IF outcome = "ok"
       THEN [error |-> "ok", value |-> res, logged |-> "", events |-> <<Ev("list", "")>>]
       ELSE IF outcome = "HttpError"
            THEN [error |-> "ok", value |-> <<>>, logged |-> "HttpError",
                  events |-> <<Ev("list", "")>>]
            ELSE [error |-> outcome, value |-> <<>>, logged |-> "", events |-> <<Ev("list", "")>>]

\* mutant: a request that ends in HttpError is issued a second time
get_message_details_retry(svc, msg_id, outcome, d) ==
  IF ~svc
  THEN [error |-> "NotInitialized", value |-> None, logged |-> "", events |-> <<>>]
  ELSE IF outcome = "ok"
       THEN [error |-> "ok", value |-> Some(d), logged |-> "", events |-> <<Ev("get", msg_id)>>]
       ELSE IF outcome = "HttpError"
            THEN [error |-> "ok", value |-> None, logged |-> "HttpError",
                  events |-> <<Ev("get", msg_id), Ev("get", msg_id)>>]
            ELSE [error |-> outcome, value |-> None, logged |-> "",
                  events |-> <<Ev("get", msg_id)>>]

\* GmailService.get_message_details: value is None or Some(detail)
get_message_details(svc, msg_id, outcome, d) ==
  IF ~svc
  THEN [error |-> "NotInitialized", value |-> None, logged |-> "", events |-> <<>>]
  ELSE IF outcome = "ok"
       THEN [error |-> "ok", value |-> Some(d), logged |-> "", events |-> <<Ev("get", msg_id)>>]
       ELSE IF outcome = "HttpError"
            THEN [error |-> "ok", value |-> None, logged |-> "HttpError",
                  events |-> <<Ev("get", msg_id)>>]
            ELSE [error |-> outcome, value |-> None, logged |-> "",
                  events |-> <<Ev("get", msg_id)>>]

\* ---- Record exporter (process_and_save) -----------------------------------
fieldnames == <<"id", "threadId", "labelIds", "subject", "from", "to", "date">>

\* mutant: the separator is left out
RECURSIVE join_nosep(_, _)
join_nosep(sep, s) ==
  IF s = <<>> THEN ""
  ELSE IF Len(s) = 1 THEN s[1] ELSE s[1] \o join_nosep(sep, Tail(s))

RECURSIVE join(_, _)
join(sep, s) ==
  IF s = <<>> THEN ""
  ELSE IF Len(s) = 1 THEN s[1] ELSE s[1] \o sep \o join(sep, Tail(s))

\* mutant: the last matching header wins
RECURSIVE get_header_last(_, _)
get_header_last(headers, name) ==
  IF headers = <<>> THEN "N/A"
  ELSE IF headers[Len(headers)].name = name THEN headers[Len(headers)].value
       ELSE get_header_last(SubSeq(headers, 1, Len(headers) - 1), name)

RECURSIVE get_header(_, _)
get_header(headers, name) ==
  IF headers = <<>> THEN "N/A"
  ELSE IF headers[1].name = name THEN headers[1].value
       ELSE get_header(Tail(headers), name)

\* the dict of lines 133-141, written by DictWriter in fieldnames order
writerow(message, msg_data) ==
  LET headers == IF msg_data.payload = None THEN <<>> ELSE msg_data.payload[1]
      row == ("id" :> message.id) @@ ("threadId" :> message.threadId)
             @@ ("labelIds" :> join(",", msg_data.labelIds))
             @@ ("subject" :> get_header(headers, "Subject"))
             @@ ("from" :> get_header(headers, "From"))
             @@ ("to" :> get_header(headers, "To"))
             @@ ("date" :> get_header(headers, "Date"))
  IN  [k \in 1..Len(fieldnames) |-> row[fieldnames[k]]]

\* mutant: a message whose fetch returned None is written too, with defaults
loop_body_no_skip(rows, message, fetch, writeOK) ==
  IF fetch.error # "ok"
  THEN [rows |-> rows, outcome |-> fetch.error, events |-> <<>>]
  ELSE IF writeOK
       THEN [rows |-> Append(rows, writerow(message,
                                 IF fetch.value = None
                                 THEN [labelIds |-> <<>>, payload |-> None]
                                 ELSE fetch.value[1])),
             outcome |-> "continue", events |-> <<Ev("write_row", message.id)>>]
       ELSE [rows |-> rows, outcome |-> "IOError", events |-> <<Ev("write_row", message.id)>>]

\* one pass of the for loop (lines 120-141) over `message`, given the result
\* `fetch` of get_message_details and whether the row write succeeds
loop_body(rows, message, fetch, writeOK) ==
  IF fetch.error # "ok"
  THEN [rows |-> rows, outcome |-> fetch.error, events |-> <<>>]
  ELSE IF fetch.value = None
       THEN [rows |-> rows, outcome |-> "continue", events |-> <<>>]
       ELSE IF writeOK
            THEN [rows |-> Append(rows, writerow(message, fetch.value[1])),
                  outcome |-> "continue", events |-> <<Ev("write_row", message.id)>>]
            ELSE [rows |-> rows, outcome |-> "IOError",
                  events |-> <<Ev("write_row", message.id)>>]

\* ---- the run --------------------------------------------------------------
\* what a previous run left in OUTPUT_FILE
OldRows == <<fieldnames, <<"9", "t9", "INBOX", "Old", "o@x.com", "p@x.com", "Sun, 31 Dec">>>>

Init ==
  /\ pc = "START"
  /\ uncaught = FALSE
  /\ now \in 1..MaxTime
  /\ tokenFile \in {None} \cup {Some(to_json(c)) : c \in StoredCreds}
  /\ credsFile \in BOOLEAN
  /\ outFile \in {None, Some(OldRows)}
  /\ prevOut = outFile
  /\ prevToken = tokenFile
  /\ creds = None
  /\ loadedCreds = None
  /\ service = FALSE
  /\ messages = <<>>
  /\ idx = 1
  /\ details = <<>>
  /\ writeFailed = FALSE
  /\ calls = <<>>
  /\ lastError = ""
  /\ listOutcome = ""
  /\ mainSaw = ""

\* never assigned during the run
fixed == <<now, credsFile, prevOut, prevToken>>

\* main line 148: GmailService() -> __init__ -> authenticate, outside main's try
Construct ==
  /\ pc = "START"
  /\ \E env \in AuthEnv :
       LET r == authenticate([creds |-> None, service |-> FALSE], tokenFile, credsFile, now, env)
       IN  /\ creds' = r.creds
           /\ loadedCreds' = r.loaded
           /\ tokenFile' = r.tokenFile
           /\ service' = r.service
           /\ calls' = calls \o r.events
           /\ lastError' = IF r.error = "ok" THEN lastError ELSE r.error
           /\ pc' = IF r.error = "ok" THEN "CONSTRUCTED" ELSE "AUTH_FAILED"
           /\ uncaught' = (r.error # "ok")
  /\ UNCHANGED <<fixed, outFile, messages, idx, details, writeFailed, listOutcome, mainSaw>>

\* mutant: a failure of the second authenticate is logged and the run goes on
MainAuthenticate_swallowed ==
  /\ pc = "CONSTRUCTED"
  /\ \E env \in AuthEnv :
       LET r == authenticate([creds |-> creds, service |-> service], tokenFile, credsFile, now, env)
       IN  /\ creds' = r.creds
           /\ loadedCreds' = r.loaded
           /\ tokenFile' = r.tokenFile
           /\ service' = r.service
           /\ calls' = calls \o r.events
           /\ lastError' = IF r.error = "ok" THEN lastError ELSE r.error
           /\ pc' = "AUTHENTICATED"
  /\ UNCHANGED <<fixed, uncaught, outFile, messages, idx, details, writeFailed, listOutcome,
                 mainSaw>>

\* main line 151: the second authenticate, inside main's try (except at 160)
MainAuthenticate ==
  /\ pc = "CONSTRUCTED"
  /\ \E env \in AuthEnv :
       LET r == authenticate([creds |-> creds, service |-> service], tokenFile, credsFile, now, env)
       IN  /\ creds' = r.creds
           /\ loadedCreds' = r.loaded
           /\ tokenFile' = r.tokenFile
           /\ service' = r.service
           /\ calls' = calls \o r.events
           /\ lastError' = IF r.error = "ok" THEN lastError ELSE r.error
           /\ mainSaw' = IF r.error = "ok" THEN mainSaw ELSE r.error
           /\ pc' = IF r.error = "ok" THEN "AUTHENTICATED" ELSE "AUTH_FAILED"
  /\ UNCHANGED <<fixed, uncaught, outFile, messages, idx, details, writeFailed, listOutcome>>

\* main line 152; an exception of get_emails reaches the except of line 160
GetEmails ==
  /\ pc = "AUTHENTICATED"
  /\ \E outcome \in Outcomes, res \in ListResults :
       LET r == get_emails(service, outcome, res)
       IN  /\ messages' = r.value
           /\ listOutcome' = outcome
           /\ calls' = calls \o r.events
           /\ lastError' = IF r.error # "ok" THEN r.error
                           ELSE IF r.logged # "" THEN r.logged ELSE lastError
           /\ mainSaw' = IF r.error = "ok" THEN mainSaw ELSE r.error
           /\ pc' = IF r.error = "ok" THEN "LISTED" ELSE "APP_FAILED"
  /\ UNCHANGED <<fixed, uncaught, tokenFile, outFile, creds, loadedCreds, service, idx,
                 details, writeFailed>>

\* mutant: no early return, process_and_save runs on the empty list
NoMessages_exported ==
  /\ pc = "LISTED"
  /\ messages = <<>>
  /\ pc' = "LIST_EMPTY"
  /\ outFile' = Some(<<fieldnames>>)
  /\ calls' = calls \o <<Ev("open_output", ""), Ev("write_header", "")>>
  /\ UNCHANGED <<fixed, uncaught, tokenFile, creds, loadedCreds, service, messages,
                 idx, details, writeFailed, lastError, listOutcome, mainSaw>>

\* main lines 154-156: "No messages found."
NoMessages ==
  /\ pc = "LISTED"
  /\ messages = <<>>
  /\ pc' = "LIST_EMPTY"
  /\ UNCHANGED <<fixed, uncaught, tokenFile, outFile, creds, loadedCreds, service, messages,
                 idx, details, writeFailed, calls, lastError, listOutcome, mainSaw>>

\* mutant: the header row is not written when the file is opened
OpenOutput_no_header ==
  /\ pc = "LISTED"
  /\ messages # <<>>
  /\ \E outcome \in {"ok", "open"} :
       /\ outFile' = IF outcome = "ok" THEN Some(<<>>) ELSE outFile
       /\ writeFailed' = (outcome # "ok")
       /\ pc' = IF outcome = "ok" THEN "EXPORTING" ELSE "EXPORT_FAILED"
       /\ lastError' = IF outcome = "ok" THEN lastError ELSE "IOError"
       /\ calls' = Append(calls, Ev("open_output", ""))
  /\ idx' = 1
  /\ UNCHANGED <<fixed, uncaught, tokenFile, creds, loadedCreds, service, messages, details,
                 listOutcome, mainSaw>>

\* main line 158 -> process_and_save lines 113-118: open(OUTPUT_FILE, 'w') and
\* writeheader.  "open" fails before the file is truncated, "header" after; the
\* IOError is caught and logged at lines 144-145.
OpenOutput ==
  /\ pc = "LISTED"
  /\ messages # <<>>
  /\ \E outcome \in {"ok", "open", "header"} :
       /\ outFile' = IF outcome = "ok" THEN Some(<<fieldnames>>)
                     ELSE IF outcome = "header" THEN Some(<<>>) ELSE outFile
       /\ writeFailed' = (outcome # "ok")
       /\ pc' = IF outcome = "ok" THEN "EXPORTING" ELSE "EXPORT_FAILED"
       /\ lastError' = IF outcome = "ok" THEN lastError ELSE "IOError"
       /\ calls' = calls \o <<Ev("open_output", "")>>
                   \o (IF outcome = "open" THEN <<>> ELSE <<Ev("write_header", "")>>)
  /\ idx' = 1
  /\ UNCHANGED <<fixed, uncaught, tokenFile, creds, loadedCreds, service, messages, details,
                 listOutcome, mainSaw>>

\* mutant: process_and_save has no except clause, every exception reaches main
except_clauses_reraise(outcome) == [pc |-> "APP_FAILED", raised |-> outcome]

\* lines 144-145 and 160-161: where an exception raised inside the with block
\* ends.  IOError is OSError, so the except of process_and_save takes the
\* failed write and every OSError of the transport; the rest reaches main.
except_clauses(outcome) ==
  IF outcome \in {"IOError", "OSError"}
  THEN [pc |-> "EXPORT_FAILED", raised |-> ""]
  ELSE [pc |-> "APP_FAILED", raised |-> outcome]

\* process_and_save lines 120-141 for one message, the response of a
\* successful detail request being one of DS
FetchAndWriteFrom(DS) ==
  /\ pc = "EXPORTING"
  /\ idx <= Len(messages)
  /\ \E outcome \in Outcomes, d \in DS, writeOK \in BOOLEAN :
       LET fetch == get_message_details(service, messages[idx].id, outcome, d)
           r == loop_body(outFile[1], messages[idx], fetch, writeOK)
           h == except_clauses(r.outcome)
       IN  /\ outFile' = Some(r.rows)
           /\ details' = Append(details, fetch.value)
           /\ calls' = calls \o fetch.events \o r.events
           /\ writeFailed' = (writeFailed \/ (fetch.error = "ok" /\ fetch.value # None /\ ~writeOK))
           /\ idx' = IF r.outcome = "continue" THEN idx + 1 ELSE idx
           /\ pc' = IF r.outcome = "continue" THEN "EXPORTING" ELSE h.pc
           /\ mainSaw' = IF r.outcome = "continue" THEN mainSaw ELSE h.raised
           /\ lastError' = IF r.outcome = "continue"
                           THEN (IF fetch.logged # "" THEN fetch.logged ELSE lastError)
                           ELSE r.outcome
  /\ UNCHANGED <<fixed, uncaught, tokenFile, creds, loadedCreds, service, messages, listOutcome>>

FetchAndWrite == FetchAndWriteFrom(Details)

\* process_and_save line 142: the loop is over, the with block closed the file
CloseOutput ==
  /\ pc = "EXPORTING"
  /\ idx > Len(messages)
  /\ pc' = "DONE"
  /\ UNCHANGED <<fixed, uncaught, tokenFile, outFile, creds, loadedCreds, service, messages,
                 idx, details, writeFailed, calls, lastError, listOutcome, mainSaw>>

Next ==
  \/ Construct
  \/ MainAuthenticate
  \/ GetEmails
  \/ NoMessages
  \/ OpenOutput
  \/ FetchAndWrite
  \/ CloseOutput

Spec == Init /\ [][Next]_vars

\* ---- the export alone, over every short header list and label list ---------
HeaderNames == {"Subject", "subject", "From", "To", "Date"}
HeaderValues == {"v1", "v2"}
Labels == {"INBOX", "UNREAD"}
HeaderSeqs == UNION {[1..n -> {H(a, b) : a \in HeaderNames, b \in HeaderValues}] : n \in 0..MaxHdrs}
LabelSeqs == UNION {[1..n -> Labels] : n \in 0..MaxLabels}
WideDetails ==
  {[labelIds |-> l, payload |-> Some(h)] : l \in LabelSeqs, h \in HeaderSeqs}
  \cup {[labelIds |-> l, payload |-> None] : l \in LabelSeqs}
  \cup Details

\* the credential of a run that found a valid token file at time 1
ExportCred == [token |-> "stored", refresh_token |-> TRUE, expiry |-> MaxTime]

\* the run just before main line 158: both authenticate calls used the valid
\* stored credential and the list request returned one message
InitExport ==
  /\ pc = "LISTED"
  /\ uncaught = FALSE
  /\ now = 1
  /\ tokenFile = Some(to_json(ExportCred))
  /\ credsFile \in BOOLEAN
  /\ outFile \in {None, Some(OldRows)}
  /\ prevOut = outFile
  /\ prevToken = tokenFile
  /\ creds = Some(ExportCred)
  /\ loadedCreds = Some(ExportCred)
  /\ service = TRUE
  /\ messages \in {<<m>> : m \in Summaries}
  /\ idx = 1
  /\ details = <<>>
  /\ writeFailed = FALSE
  /\ calls = <<Ev("exists_token", ""), Ev("load_token", ""), Ev("build", ""),
               Ev("exists_token", ""), Ev("load_token", ""), Ev("build", ""),
               Ev("list", "")>>
  /\ lastError = ""
  /\ listOutcome = "ok"
  /\ mainSaw = ""

FetchAndWriteWide == FetchAndWriteFrom(WideDetails)

NextExport ==
  \/ OpenOutput
  \/ FetchAndWriteWide
  \/ CloseOutput

SpecExport == InitExport /\ [][NextExport]_vars

\* ---- what the history records ----------------------------------------------
HasCall(op) == \E k \in 1..Len(calls) : calls[k].op = op
CountCalls(op) == Cardinality({k \in 1..Len(calls) : calls[k].op = op})
NetworkOps == {"refresh", "consent_flow", "build", "list", "get"}
NoNetworkCall == \A k \in 1..Len(calls) : calls[k].op \notin NetworkOps

\* this run opened (and so truncated) OUTPUT_FILE
Truncated == HasCall("write_header")
\* the rows below the header that this run put into OUTPUT_FILE
DataRows ==
  IF Truncated /\ outFile # None /\ Len(outFile[1]) > 0 THEN Tail(outFile[1]) ELSE <<>>

\* one row per processed message whose detail fetch succeeded, in list order
RECURSIVE FetchedRows(_, _)
FetchedRows(msgs, dets) ==
  IF dets = <<>> THEN <<>>
  ELSE (IF Head(dets) = None THEN <<>> ELSE <<writerow(Head(msgs), Head(dets)[1])>>)
       \o FetchedRows(Tail(msgs), Tail(dets))

IsPrefix(s, t) == Len(s) <= Len(t) /\ SubSeq(t, 1, Len(s)) = s

\* ---- C1 ---------------------------------------------------------------------
\* C1 as stated: in every state of an export, the data rows of the output file
\* are exactly the rows of the messages fetched successfully so far, in list
\* order (as many rows as successful fetches).
C1_RowsEqualFetched ==
  Truncated => DataRows = FetchedRows(messages, details)

\* C1 amended: the data rows are always a prefix of the rows of the messages
\* fetched successfully, in list order (never more rows than successful
\* fetches), and they are exactly those rows unless a write to the output file
\* failed.
C1_RowsPrefixOfFetched ==
  Truncated =>
    /\ IsPrefix(DataRows, FetchedRows(messages, details))
    /\ (~writeFailed => DataRows = FetchedRows(messages, details))

\* a finished export of two messages: the first fetch failed, the second row is in the file
C1_Witness ==
  /\ pc = "DONE"
  /\ Len(messages) = 2 /\ messages[1].id # messages[2].id
  /\ details[1] = None /\ details[2] # None
  /\ Len(DataRows) = 1 /\ DataRows[1][1] = messages[2].id

\* ---- C2 ---------------------------------------------------------------------
\* C2: a failed detail fetch (absent result) only skips its own message: the
\* loop moves on to the next message, and an export in which no write failed
\* has fetched every message of the list when it ends.
C2_FetchFailureIsolated ==
  /\ \A k \in 1..Len(details) : details[k] = None => idx > k
  /\ (pc \in Terminal /\ Truncated /\ ~writeFailed) => Len(details) = Len(messages)

\* ---- C3 ---------------------------------------------------------------------
\* the list request returned a response without messages
ListReturnedEmpty == listOutcome = "ok" /\ messages = <<>> /\ pc = "LIST_EMPTY"

\* C3 as stated: a run whose list query returns an empty result ends with an
\* output file that holds the header row and nothing else.
C3_EmptyListHeaderOnly ==
  ListReturnedEmpty => outFile = Some(<<fieldnames>>)

\* C3 amended: a run whose list query returns an empty result never opens the
\* output file: at the end of the run the file is what it was before the run
\* (the content of a previous run stays, an absent file stays absent).
C3_EmptyListLeavesFile ==
  ListReturnedEmpty => (outFile = prevOut /\ ~HasCall("open_output"))

\* an empty list result with a previous run's rows still in the file
C3_Witness ==
  ListReturnedEmpty /\ outFile = Some(OldRows)

\* ---- C4 ---------------------------------------------------------------------
\* the credential TOKEN_FILE held before the run
StoredCred == from_authorized_user_file(prevToken[1])
NoTokenNoConfig == prevToken = None /\ ~credsFile

\* C4: with no token file and no client-secret file, authentication fails with
\* the config-missing error (FileNotFoundError) before any network call, and the
\* token store is not written.
C4_ConfigMissingBeforeNetwork ==
  (NoTokenNoConfig /\ pc # "START") =>
    /\ pc = "AUTH_FAILED"
    /\ lastError = "FileNotFoundError"
    /\ NoNetworkCall
    /\ ~HasCall("write_token")
    /\ tokenFile = None
    /\ ~service

\* the constructor's authenticate has run without token file and client-secret file
C4_Witness ==
  NoTokenNoConfig /\ pc = "AUTH_FAILED" /\ HasCall("exists_credentials")

\* ---- C5 ---------------------------------------------------------------------
\* a refresh was attempted and did not produce a refreshed credential
RefreshFailed == HasCall("refresh") /\ creds # None /\ creds[1].token # "refreshed"

\* C5: after a failed refresh, authenticate goes on to full re-authentication:
\* it looks for the client-secret file (to run the consent flow or to fail
\* with the config-missing error) and does not fail with the refresh error.
C5_RefreshFailureFallsThrough ==
  RefreshFailed => (HasCall("exists_credentials") /\ lastError # "RefreshError")

\* ---- C6 ---------------------------------------------------------------------
ValidStored == prevToken # None /\ valid(StoredCred, now)

\* C6: a stored credential that is valid (unexpired) is used unchanged: no
\* refresh, no consent flow, no write of the token store.
C6_ValidCredentialUnchanged ==
  (ValidStored /\ pc # "START") =>
    /\ creds = Some(StoredCred)
    /\ ~HasCall("refresh") /\ ~HasCall("consent_flow")
    /\ ~HasCall("write_token") /\ ~HasCall("exists_credentials")
    /\ tokenFile = prevToken

\* both authenticate calls succeeded on a valid stored credential
C6_Witness ==
  ValidStored /\ pc = "AUTHENTICATED" /\ service

\* ---- C7 ---------------------------------------------------------------------
\* position of the last call of kind op, 0 when there is none
LastCall(op) ==
  LET S == {k \in 1..Len(calls) : calls[k].op = op}
  IN  IF S = {} THEN 0 ELSE CHOOSE k \in S : \A j \in S : j <= k

\* C7: a refreshed or newly issued credential is written to the token store
\* before the service is built; whenever the service is set the token store
\* holds the credential in use; a refreshed credential expires later than the
\* one loaded.
C7_PersistedBeforeReturn ==
  /\ \A k \in 1..Len(calls) :
       calls[k].op = "build" =>
         \A j \in 1..(k - 1) :
           calls[j].op \in {"refresh", "consent_flow"} =>
             \E m \in (j + 1)..(k - 1) : calls[m].op = "write_token"
  /\ (creds # None /\ creds[1].token \in {"refreshed", "issued"} /\ HasCall("build")) =>
       tokenFile = Some(to_json(creds[1]))
  /\ service => (creds # None /\ tokenFile # None
                 /\ from_authorized_user_file(tokenFile[1]) = creds[1])
  /\ (creds # None /\ creds[1].token = "refreshed") =>
       (prevToken # None /\ creds[1].expiry > StoredCred.expiry)

\* authentication succeeded by refreshing the stored credential
C7_Witness ==
  /\ service /\ creds # None /\ creds[1].token = "refreshed"
  /\ tokenFile # prevToken /\ pc = "AUTHENTICATED"

\* ---- C8 ---------------------------------------------------------------------
\* C8: the credential store is read once, as the first thing the run does, and
\* written at most once.
C8_StoreReadOnce ==
  /\ CountCalls("exists_token") <= 1
  /\ CountCalls("load_token") <= 1
  /\ CountCalls("write_token") <= 1
  /\ (pc # "START" => (CountCalls("exists_token") = 1 /\ calls[1].op = "exists_token"))

\* ---- C9 ---------------------------------------------------------------------
\* C9 as stated: a failed write ends the export and reaches the caller of
\* process_and_save as an IOError.
C9_WriteFailureSurfaced ==
  writeFailed => (pc = "EXPORT_FAILED" /\ mainSaw = "IOError")

\* C9 amended: a failed write ends the export: nothing more is fetched or
\* written and the file keeps the rows written before the failure; the IOError
\* is caught and logged inside process_and_save, which returns normally, so no
\* exception reaches main.
C9_WriteFailureLogged ==
  writeFailed =>
    /\ pc = "EXPORT_FAILED"
    /\ lastError = "IOError"
    /\ mainSaw = "" /\ ~uncaught
    /\ IsPrefix(DataRows, FetchedRows(messages, details))
    /\ ~ENABLED Next

\* the write of the second row failed, the first row stays in the file
C9_Witness ==
  /\ writeFailed /\ pc = "EXPORT_FAILED"
  /\ Len(messages) = 2 /\ idx = 2 /\ Len(DataRows) = 1

\* ---- C10 --------------------------------------------------------------------
\* C10: whatever error the list request ends with, get_emails returns an empty
\* list and logs the error; the run goes on as "no messages found": no detail
\* fetch, output file untouched, no exception in main.
C10_ListErrorMeansEmpty ==
  listOutcome \notin {"", "ok"} =>
    /\ pc \in {"LISTED", "LIST_EMPTY"}
    /\ messages = <<>>
    /\ lastError = listOutcome
    /\ mainSaw = ""
    /\ ~HasCall("get") /\ ~HasCall("open_output")
    /\ outFile = prevOut

\* ---- C11 --------------------------------------------------------------------
IsGet(e) == e.op = "get"
\* the detail requests issued so far, in order
GetCalls == SelectSeq(calls, IsGet)

\* C11: nothing is retried: at most one list request per run, and the detail
\* requests follow the list one request per position, whether the request
\* succeeded or failed.
C11_NoRetry ==
  /\ CountCalls("list") <= 1
  /\ Len(GetCalls) <= Len(messages)
  /\ Len(GetCalls) = Len(details)
  /\ \A k \in 1..Len(GetCalls) : GetCalls[k].id = messages[k].id

\* a finished export of two messages whose first detail request failed
C11_Witness ==
  /\ pc = "DONE" /\ Len(messages) = 2
  /\ details[1] = None
  /\ CountCalls("get") = 2 /\ CountCalls("list") = 1

\* ---- C12 --------------------------------------------------------------------
\* the header list of a detail response (lines 127)
HeadersOf(d) == IF d.payload = None THEN <<>> ELSE d.payload[1]

\* the value of the first header named `name`, "N/A" when there is none
FirstMatch(headers, name) ==
  LET S == {k \in 1..Len(headers) : headers[k].name = name}
  IN  IF S = {} THEN "N/A" ELSE headers[CHOOSE k \in S : \A j \in S : k <= j].value

\* how many of the first k processed messages were fetched successfully
Fetched(k) == Cardinality({i \in 1..k : details[i] # None})

\* the state InitExport describes, as Spec reaches it
ExportStart ==
  /\ pc = "LISTED" /\ Len(messages) = 1 /\ now = 1
  /\ prevToken = Some(to_json(ExportCred)) /\ tokenFile = prevToken
  /\ creds = Some(ExportCred) /\ loadedCreds = creds /\ service
  /\ ~uncaught /\ lastError = "" /\ mainSaw = "" /\ listOutcome = "ok"
  /\ idx = 1 /\ details = <<>> /\ ~writeFailed
  /\ calls = <<Ev("exists_token", ""), Ev("load_token", ""), Ev("build", ""),
               Ev("exists_token", ""), Ev("load_token", ""), Ev("build", ""),
               Ev("list", "")>>

\* C12: every fetched message has its row unless a write failed, and in that
\* row subject, from, to and date are the value of the first header named
\* exactly Subject, From, To and Date, or "N/A" when no header has that name.
C12_FirstMatchOrSentinel ==
  \A k \in 1..Len(details) :
    details[k] # None =>
      /\ (~writeFailed => Fetched(k) <= Len(DataRows))
      /\ Fetched(k) <= Len(DataRows) =>
           LET row == DataRows[Fetched(k)]
               hs == HeadersOf(details[k][1])
           IN  /\ row[4] = FirstMatch(hs, "Subject")
               /\ row[5] = FirstMatch(hs, "From")
               /\ row[6] = FirstMatch(hs, "To")
               /\ row[7] = FirstMatch(hs, "Date")

\* a written row whose message had a lower-case subject header before the
\* Subject header, a second Subject header, and no From header
C12_Witness ==
  /\ pc = "DONE" /\ Len(details) = 1 /\ details[1] # None
  /\ HeadersOf(details[1][1]) = <<H("subject", "v2"), H("Subject", "v1")>>
  /\ Len(DataRows) = 1
  /\ DataRows[1][4] = "v1" /\ DataRows[1][5] = "N/A"

\* ---- C13 --------------------------------------------------------------------
ScenarioSummary == [id |-> "1", threadId |-> "t1"]
ScenarioDetail ==
  [labelIds |-> <<"INBOX">>,
   payload |-> Some(<<H("Subject", "Hi"), H("From", "a@x.com"), H("To", "b@x.com"),
                      H("Date", "Mon, 1 Jan")>>)]
ScenarioRow == <<"1", "t1", "INBOX", "Hi", "a@x.com", "b@x.com", "Mon, 1 Jan">>

\* the labels with a comma between neighbours, built from the left
RECURSIVE CommaSeparated(_)
CommaSeparated(labels) ==
  IF labels = <<>> THEN ""
  ELSE IF Len(labels) = 1 THEN labels[1]
       ELSE CommaSeparated(SubSeq(labels, 1, Len(labels) - 1)) \o "," \o labels[Len(labels)]

\* C13: the export of the one-message scenario holds exactly the record
\* 1, t1, INBOX, Hi, a@x.com, b@x.com, "Mon, 1 Jan"; in every row id and
\* threadId are those of the list entry and labelIds is the label list of the
\* fetched message joined with commas.
C13_ScenarioRecord ==
  /\ (pc = "DONE" /\ messages = <<ScenarioSummary>> /\ details = <<Some(ScenarioDetail)>>) =>
       DataRows = <<ScenarioRow>>
  /\ \A k \in 1..Len(details) :
       (details[k] # None /\ Fetched(k) <= Len(DataRows)) =>
         LET row == DataRows[Fetched(k)]
         IN  /\ row[1] = messages[k].id
             /\ row[2] = messages[k].threadId
             /\ row[3] = CommaSeparated(details[k][1].labelIds)

\* the scenario has run to the end
C13_Witness ==
  /\ pc = "DONE" /\ messages = <<ScenarioSummary>> /\ details = <<Some(ScenarioDetail)>>
  /\ outFile = Some(<<fieldnames, ScenarioRow>>)

\* ---- C14 --------------------------------------------------------------------
\* some call of kind a comes before position k
Before(a, k) == \E j \in 1..(k - 1) : calls[j].op = a
AuthOps == {"exists_token", "load_token", "refresh", "exists_credentials", "consent_flow",
            "write_token", "build"}

\* C14 as stated: no detail request is issued once the output file has been
\* opened: all fetching is over before the export opens and truncates the file.
C14_FetchBeforeExport ==
  \A k \in 1..Len(calls) :
    calls[k].op = "get" => ~Before("open_output", k)

\* C14 amended: the run authenticates, then lists, then exports; the export
\* opens and truncates the file and writes the header before the first detail
\* request, and every message is fetched while the file is open, its row
\* written right after its own fetch and before the next fetch.
C14_FetchInsideExport ==
  \A k \in 1..Len(calls) :
    /\ calls[k].op \in AuthOps => (~Before("list", k) /\ ~Before("open_output", k))
    /\ calls[k].op = "list" => (Before("build", k) /\ ~Before("open_output", k))
    /\ calls[k].op = "open_output" => Before("list", k)
    /\ calls[k].op = "get" => Before("write_header", k)
    /\ calls[k].op = "write_row" =>
         (k > 1 /\ calls[k - 1].op = "get" /\ calls[k - 1].id = calls[k].id)

\* a finished export in which a row was written between two detail requests
C14_Witness ==
  /\ pc = "DONE"
  /\ \E k \in 1..(Len(calls) - 1) : calls[k].op = "write_row" /\ calls[k + 1].op = "get"

\* ---- C15 --------------------------------------------------------------------
\* the run logged an authentication failure (line 59) and nothing after it
AuthFailureLogged ==
  \/ lastError \in {"RefreshError", "FileNotFoundError", "FlowError", "BuildError"}
  \/ (lastError = "IOError" /\ ~HasCall("open_output"))

\* C15: a list or detail request is issued only with the service set by a
\* successful authenticate (a build call precedes it); a failed authenticate
\* ends the run: no list call, no detail fetch, output file unchanged, no
\* further step.
C15_RemoteCallsNeedAuth ==
  /\ \A k \in 1..Len(calls) :
       calls[k].op \in {"list", "get"} => (service /\ Before("build", k))
  /\ AuthFailureLogged =>
       /\ pc = "AUTH_FAILED"
       /\ ~HasCall("list") /\ ~HasCall("get") /\ ~HasCall("open_output")
       /\ outFile = prevOut
       /\ ~ENABLED Next
  /\ pc = "AUTH_FAILED" => AuthFailureLogged

\* the second authenticate failed after the constructor's had set the service,
\* with a previous run's rows in the output file
C15_Witness ==
  /\ pc = "AUTH_FAILED" /\ service /\ mainSaw = "BuildError"
  /\ outFile = Some(OldRows)

\* ---- C16 --------------------------------------------------------------------
\* the terminal outcomes the workflow names
NamedOutcome == pc \in {"AUTH_FAILED", "LIST_EMPTY", "EXPORT_FAILED", "DONE"}

\* C16: a run only stops in one of the outcomes authentication failed, list
\* empty, export failed or done: while it is in none of them it has a next
\* step, and once in one of them it has none.
C16_StopsInNamedOutcome ==
  /\ (NamedOutcome \/ ENABLED Next)
  /\ (NamedOutcome => ~ENABLED Next)

\* the run with every step taken as long as one is enabled (single-threaded,
\* blocking calls that return or raise)
SpecLive == Spec /\ WF_vars(Next)

\* every run stops: it reaches a position with no further step
RunTerminates == <>(pc \in Terminal)
TerminalIsFinal == (pc \in Terminal) <=> ~ENABLED Next

====
